---- MODULE Spec2Model ----
(***************************************************************************)
(* Monthly financial settlement pipeline of the cooperative back office:   *)
(* FinancialCalculationService (apps/financials/services.py) over the      *)
(* Instructor, CourseInstructor, Payment, Expense, Member registries and   *)
(* the InstructorPayment / MonthlyFinancial / MemberDistribution tables.   *)
(*                                                                         *)
(* Units.  A DecimalField(decimal_places=2) is held as an integer number   *)
(* of hundredths (150.50 DH = 15050, 1.25 h = 125, 10.00 % = 1000).        *)
(* Intermediate Decimal values that Python keeps unrounded are held as     *)
(* integer numerators over a named power of ten.  A value is rounded to    *)
(* two places only when the row is saved, by the PostgreSQL numeric(p,2)   *)
(* column (config/settings/base.py), which rounds ties away from zero.     *)
(* A date is a tuple <<year, month, day>>.                                 *)
(***************************************************************************)
EXTENDS Integers, Sequences, FiniteSets, TLC

VARIABLES
    instr,      \* Instructor registry: id -> [status, hourly_rate, tax_rate_percentage]
    hours,      \* CourseInstructor.hours_taught: <<instructor, course>> -> hundredths of an hour
    ipay,       \* InstructorPayment table: sequence of rows in insertion order
    computed,   \* history: per ipay row, the figures the service last wrote to it (by_service FALSE if never)
    payments,   \* Payment ledger: id -> [status, amount_paid, payment_date]
    expenses,   \* Expense ledger: id -> [status, amount, period_month]
    members,    \* Member registry: id -> [status, employment_status, share_percentage]
    mf,         \* MonthlyFinancial table: sequence of rows in insertion order
    dist,       \* MemberDistribution table: sequence of rows in insertion order
    lastOp,     \* the operation that produced the current state: [op, period, again, pct]
    edits,      \* number of registry edits made so far (exploration budget)
    ret,        \* outcome of the last service call: [ok, rows]
    workers,    \* calculations in flight: worker -> its position and local values
    enrollments, \* Enrollment table of one course: sequence of [student, status]
    requests    \* enroll_student requests in flight: request -> its position and student

vars == <<instr, hours, ipay, computed, payments, expenses, members, mf, dist, lastOp, edits, ret,
          workers, enrollments, requests>>

----------------------------------------------------------------------------
(* Calendar *)

NullDate == <<0, 0, 0>>

IsLeap(y) == (y % 4 = 0 /\ y % 100 # 0) \/ y % 400 = 0

DaysInMonth(y, m) ==
    IF m = 2 THEN (IF IsLeap(y) THEN 29 ELSE 28)
    ELSE IF m \in {4, 6, 9, 11} THEN 30 ELSE 31

\* d1 <= d2 on dates
DateLE(d1, d2) ==
    \/ d1[1] < d2[1]
    \/ d1[1] = d2[1] /\ d1[2] < d2[2]
    \/ d1[1] = d2[1] /\ d1[2] = d2[2] /\ d1[3] <= d2[3]

\* date - timedelta(days=1)
PrevDay(d) ==
    IF d[3] > 1 THEN <<d[1], d[2], d[3] - 1>>
    ELSE IF d[2] > 1 THEN <<d[1], d[2] - 1, DaysInMonth(d[1], d[2] - 1)>>
    ELSE <<d[1] - 1, 12, 31>>

\* variant: the date is used as given, without replace(day=1)
FirstDayAsGiven(d) == d

\* period_month.replace(day=1)
FirstDay(d) == <<d[1], d[2], 1>>

\* the if/else on period_month.month == 12
\* variant: the December branch forgets to advance the year
LastDayNoRollover(d) ==
    IF d[2] = 12
    THEN PrevDay(<<d[1], 1, 1>>)
    ELSE PrevDay(<<d[1], d[2] + 1, 1>>)

LastDay(d) ==
    IF d[2] = 12
    THEN PrevDay(<<d[1] + 1, 1, 1>>)
    ELSE PrevDay(<<d[1], d[2] + 1, 1>>)

----------------------------------------------------------------------------
(* Decimal storage *)

\* numeric(p,2) rounding of the rational n/q (q > 0): nearest, ties away from zero
RoundHalfAway(n, q) ==
    IF n >= 0 THEN (2 * n + q) \div (2 * q)
    ELSE -((2 * (-n) + q) \div (2 * q))

Abs(x) == IF x < 0 THEN -x ELSE x

\* numeric(p,2) rounding of a*b/1000000 (ties away from zero), computed in
\* parts so that no intermediate exceeds the 32-bit integer range
RoundMillionth(a, b) ==
    LET A  == Abs(a)
        B  == Abs(b)
        X  == (A \div 1000) * B
        Y  == (A % 1000) * B
        f  == (X % 1000) * 1000 + Y
        mag == (X \div 1000) + RoundHalfAway(f, 1000000)
    IN IF (a < 0) # (b < 0) THEN -mag ELSE mag

----------------------------------------------------------------------------
(* Fixed registries and input domains *)

Instructors == {1, 2}
Courses == {1, 2, 3}

\* Course.start_date / end_date of the three courses
CourseStart(c) == IF c = 1 THEN <<2024, 12, 2>> ELSE IF c = 2 THEN <<2024, 11, 4>> ELSE <<2025, 1, 6>>
CourseEnd(c)   == IF c = 1 THEN <<2024, 12, 20>> ELSE IF c = 2 THEN <<2025, 1, 31>> ELSE <<2025, 2, 28>>

HourValues == {0, 125}
RateValues == {15000, 15011}
TaxValues == {1000, 2000}
InstructorStatuses == {"active", "inactive"}
PayDates == {<<2024, 12, 1>>, <<2024, 12, 15>>}

\* history entry of a row the service has never computed
NotComputed ==
    [by_service |-> FALSE, total_hours |-> 0, hourly_rate |-> 0,
     gross_amount |-> 0, tax_amount |-> 0, net_amount |-> 0]

\* history entry of a row as the service has just written it
ComputedAs(row) ==
    [by_service |-> TRUE, total_hours |-> row.total_hours, hourly_rate |-> row.hourly_rate,
     gross_amount |-> row.gross_amount, tax_amount |-> row.tax_amount,
     net_amount |-> row.net_amount]

NoRet == [ok |-> TRUE, rows |-> <<>>]

----------------------------------------------------------------------------
(* Generic helpers *)

RECURSIVE SumOver(_, _)
\* sum of f[x] over the finite set S (Sum(...) aggregate; empty set -> 0 through "or Decimal('0')")
SumOver(S, f) ==
    IF S = {} THEN 0
    ELSE LET x == CHOOSE y \in S : TRUE IN f[x] + SumOver(S \ {x}, f)

RECURSIVE Ascending(_)
\* the elements of a finite set of integers as an ascending sequence
Ascending(S) ==
    IF S = {} THEN <<>>
    ELSE LET x == CHOOSE y \in S : \A z \in S : y <= z IN <<x>> \o Ascending(S \ {x})

----------------------------------------------------------------------------
(* InstructorPayment *)

\* Columns of InstructorPayment that are NOT NULL and declare no default
InstructorPaymentRequired ==
    {"instructor", "period_month", "total_hours", "hourly_rate", "gross_amount", "net_amount"}

\* Fields update_or_create passes to create(): the lookup kwargs plus defaults
InstructorPaymentProvided ==
    {"instructor", "period_month", "total_hours", "hourly_rate", "status"}

\* INSERT succeeds only when every NOT NULL column without default has a value
InsertAccepted(required, provided) == required \subseteq provided

\* variant: gross from the instructor's current hourly_rate, not the row's
CalculateAmountsLiveRate(p, t) ==
    LET g4 == p.total_hours * instr[p.instructor].hourly_rate
    IN [p EXCEPT !.gross_amount = RoundHalfAway(g4, 100),
                 !.tax_amount   = RoundMillionth(g4, t),
                 !.net_amount   = RoundMillionth(g4, 10000 - t)]

\* InstructorPayment.calculate_amounts on row p of an instructor whose current
\* tax_rate_percentage is t: amounts from the unrounded Decimal products, each
\* rounded on save.  hours*rate is in 1e-4 DH; tax = gross * (t / 100) and
\* net = gross - tax are hours*rate*t and hours*rate*(10000 - t) in 1e-8 DH.
CalculateAmounts(p, t) ==
    LET g4 == p.total_hours * p.hourly_rate
    IN [p EXCEPT !.gross_amount = RoundHalfAway(g4, 100),
                 !.tax_amount   = RoundMillionth(g4, t),
                 !.net_amount   = RoundMillionth(g4, 10000 - t)]

\* course__start_date__lte=last_day, course__end_date__gte=first_day
CourseOverlaps(c, first_day, last_day) ==
    DateLE(CourseStart(c), last_day) /\ DateLE(first_day, CourseEnd(c))

\* Sum('hours_taught') over the instructor's assignments to overlapping courses
TotalHours(i, first_day, last_day) ==
    SumOver({c \in Courses : CourseOverlaps(c, first_day, last_day)},
            [c \in Courses |-> hours[<<i, c>>]])

\* variant: the hours of a run are added to the row instead of replacing them
ApplyPaymentDefaultsAppend(row, total_hours, hourly_rate) ==
    [row EXCEPT !.total_hours = row.total_hours + total_hours,
                !.hourly_rate = hourly_rate,
                !.status = "pending"]

\* update_or_create on an existing row: the defaults overwrite its fields
ApplyPaymentDefaults(row, total_hours, hourly_rate) ==
    [row EXCEPT !.total_hours = total_hours,
                !.hourly_rate = hourly_rate,
                !.status = "pending"]

\* rows matched by the lookup (instructor, period_month)
PaymentMatches(table, i, first_day) ==
    {k \in 1..Len(table) : table[k].instructor = i /\ table[k].period_month = first_day}

\* Instructor.objects.filter(status='active'), Meta.ordering = ['full_name']
\* (instructor ids are taken in name order)
ActiveInstructors == Ascending({i \in Instructors : instr[i].status = "active"})

RECURSIVE PayLoop(_, _, _, _)
\* the per-instructor loop of calculate_instructor_payments: st is
\* [table, snaps, rows, ok]; an exception ends the loop with ok = FALSE and
\* leaves the rows already saved as they are (autocommit, no transaction).
PayLoop(todo, st, first_day, last_day) ==
    IF todo = <<>> \/ ~st.ok THEN st
    ELSE
      LET i == Head(todo)
          total_hours == TotalHours(i, first_day, last_day)
          found == PaymentMatches(st.table, i, first_day)
      IN IF total_hours > 0
         THEN IF found = {}
              THEN \* create(): IntegrityError unless the INSERT is accepted
                   IF InsertAccepted(InstructorPaymentRequired, InstructorPaymentProvided)
                   THEN LET row == CalculateAmounts(
                                     [instructor |-> i, period_month |-> first_day,
                                      total_hours |-> total_hours,
                                      hourly_rate |-> instr[i].hourly_rate,
                                      gross_amount |-> 0, tax_amount |-> 0, net_amount |-> 0,
                                      status |-> "pending", payment_date |-> NullDate],
                                     instr[i].tax_rate_percentage)
                        IN PayLoop(Tail(todo),
                                   [table |-> Append(st.table, row),
                                    snaps |-> Append(st.snaps, ComputedAs(row)),
                                    rows  |-> Append(st.rows, Len(st.table) + 1),
                                    ok    |-> TRUE],
                                   first_day, last_day)
                   ELSE [st EXCEPT !.ok = FALSE]
              ELSE IF Cardinality(found) > 1
              THEN [st EXCEPT !.ok = FALSE]      \* MultipleObjectsReturned
              ELSE LET k == CHOOSE x \in found : TRUE
                       upd == ApplyPaymentDefaults(st.table[k], total_hours, instr[i].hourly_rate)
                       row == CalculateAmounts(upd, instr[i].tax_rate_percentage)
                   IN PayLoop(Tail(todo),
                              [table |-> [st.table EXCEPT ![k] = row],
                               snaps |-> [st.snaps EXCEPT ![k] = ComputedAs(row)],
                               rows  |-> Append(st.rows, k),
                               ok    |-> TRUE],
                              first_day, last_day)
         ELSE PayLoop(Tail(todo), st, first_day, last_day)

\* record of a service call; again = the previous operation was the same call
\* for the same calendar month, with nothing in between
Called(op, period_month) ==
    [op |-> op, period |-> period_month,
     again |-> (lastOp.op = op /\ FirstDay(lastOp.period) = FirstDay(period_month)),
     pct |-> 0]

\* FinancialCalculationService.calculate_instructor_payments(period_month)
CalculateInstructorPayments(period_month) ==
    LET first_day == FirstDay(period_month)
        last_day  == LastDay(period_month)
        res == PayLoop(ActiveInstructors,
                       [table |-> ipay, snaps |-> computed, rows |-> <<>>, ok |-> TRUE],
                       first_day, last_day)
    IN /\ ipay' = res.table
       /\ computed' = res.snaps
       /\ ret' = [ok |-> res.ok, rows |-> res.rows]
       /\ lastOp' = Called("calculate_instructor_payments", period_month)
       /\ UNCHANGED <<workers, enrollments, requests, instr, hours, payments, expenses, members, mf, dist, edits>>

RECURSIVE PayLoopFailing(_, _, _, _, _)
\* the same loop when a save raises (DataError such as numeric field overflow
\* on gross_amount, or a lost connection): left is the number of saves that
\* still commit.  update_or_create saves the row once and calculate_amounts
\* saves it a second time; there is no transaction around the two
\* (autocommit), so what was saved before the exception stays.
PayLoopFailing(todo, st, first_day, last_day, left) ==
    IF todo = <<>> \/ ~st.ok THEN st
    ELSE
      LET i == Head(todo)
          total_hours == TotalHours(i, first_day, last_day)
          found == PaymentMatches(st.table, i, first_day)
      IN IF total_hours > 0
         THEN IF found = {} \/ Cardinality(found) > 1 \/ left = 0
              THEN [st EXCEPT !.ok = FALSE]      \* IntegrityError, MultipleObjectsReturned, or the failing save
              ELSE LET k == CHOOSE x \in found : TRUE
                       upd == ApplyPaymentDefaults(st.table[k], total_hours, instr[i].hourly_rate)
                       row == CalculateAmounts(upd, instr[i].tax_rate_percentage)
                   IN IF left = 1
                      THEN \* update_or_create has saved, calculate_amounts' save raises
                           [st EXCEPT !.table = [st.table EXCEPT ![k] = upd], !.ok = FALSE]
                      ELSE PayLoopFailing(Tail(todo),
                                          [table |-> [st.table EXCEPT ![k] = row],
                                           snaps |-> [st.snaps EXCEPT ![k] = ComputedAs(row)],
                                           rows  |-> Append(st.rows, k),
                                           ok    |-> TRUE],
                                          first_day, last_day, left - 2)
         ELSE PayLoopFailing(Tail(todo), st, first_day, last_day, left)

\* calculate_instructor_payments(period_month) in which the save after `left`
\* committed saves raises; a call that makes fewer saves completes
CalculateInstructorPaymentsFailing(period_month, left) ==
    LET first_day == FirstDay(period_month)
        last_day  == LastDay(period_month)
        res == PayLoopFailing(ActiveInstructors,
                              [table |-> ipay, snaps |-> computed, rows |-> <<>>, ok |-> TRUE],
                              first_day, last_day, left)
    IN /\ ~res.ok
       /\ ipay' = res.table
       /\ computed' = res.snaps
       /\ ret' = [ok |-> FALSE, rows |-> res.rows]
       /\ lastOp' = Called("calculate_instructor_payments", period_month)
       /\ UNCHANGED <<workers, enrollments, requests, instr, hours, payments, expenses, members, mf, dist, edits>>

----------------------------------------------------------------------------
(* Registry edits and admin actions on instructor payments *)

\* registry edits explored per behaviour
MaxEdits == 3

Other(op) == [op |-> op, period |-> NullDate, again |-> FALSE, pct |-> 0]

\* CourseInstructorInline / CourseInstructorAdmin: hours_taught is an editable field
SetHoursTaught(i, c, h) ==
    /\ edits < MaxEdits
    /\ edits' = edits + 1
    /\ hours[<<i, c>>] # h
    /\ hours' = [hours EXCEPT ![<<i, c>>] = h]
    /\ lastOp' = Other("set_hours_taught")
    /\ ret' = NoRet
    /\ UNCHANGED <<workers, enrollments, requests, instr, ipay, computed, payments, expenses, members, mf, dist>>

\* InstructorViewSet (ModelViewSet) update of hourly_rate
SetHourlyRate(i, r) ==
    /\ edits < MaxEdits
    /\ edits' = edits + 1
    /\ instr[i].hourly_rate # r
    /\ instr' = [instr EXCEPT ![i].hourly_rate = r]
    /\ lastOp' = Other("set_hourly_rate")
    /\ ret' = NoRet
    /\ UNCHANGED <<workers, enrollments, requests, hours, ipay, computed, payments, expenses, members, mf, dist>>

\* InstructorViewSet (ModelViewSet) update of tax_rate_percentage
SetTaxRate(i, t) ==
    /\ edits < MaxEdits
    /\ edits' = edits + 1
    /\ instr[i].tax_rate_percentage # t
    /\ instr' = [instr EXCEPT ![i].tax_rate_percentage = t]
    /\ lastOp' = Other("set_tax_rate")
    /\ ret' = NoRet
    /\ UNCHANGED <<workers, enrollments, requests, hours, ipay, computed, payments, expenses, members, mf, dist>>

\* InstructorAdmin.activate_instructors / deactivate_instructors on one instructor
SetInstructorStatus(i, s) ==
    /\ edits < MaxEdits
    /\ edits' = edits + 1
    /\ instr[i].status # s
    /\ instr' = [instr EXCEPT ![i].status = s]
    /\ lastOp' = Other("set_instructor_status")
    /\ ret' = NoRet
    /\ UNCHANGED <<workers, enrollments, requests, hours, ipay, computed, payments, expenses, members, mf, dist>>

\* The row staff enter through the InstructorPaymentAdmin add form: every
\* field of the "Calculation" fieldset is typed in (40 h at 150.00, 10 % tax).
AdminPaymentRow(i, first_day) ==
    [instructor |-> i, period_month |-> first_day,
     total_hours |-> 4000, hourly_rate |-> 15000,
     gross_amount |-> 600000, tax_amount |-> 60000, net_amount |-> 540000,
     status |-> "pending", payment_date |-> NullDate]

\* InstructorPaymentAdmin add view; unique_together rejects a second row for the key
AdminAddInstructorPayment(i, first_day) ==
    /\ PaymentMatches(ipay, i, first_day) = {}
    /\ ipay' = Append(ipay, AdminPaymentRow(i, first_day))
    /\ computed' = Append(computed, NotComputed)
    /\ lastOp' = Other("admin_add_instructor_payment")
    /\ ret' = NoRet
    /\ UNCHANGED <<workers, enrollments, requests, instr, hours, payments, expenses, members, mf, dist, edits>>

\* InstructorPaymentAdmin.approve_payments on the selected rows
ApprovePayments(sel) ==
    /\ \E k \in sel : ipay[k].status = "pending"
    /\ ipay' = [k \in 1..Len(ipay) |->
                  IF k \in sel /\ ipay[k].status = "pending"
                  THEN [ipay[k] EXCEPT !.status = "approved"] ELSE ipay[k]]
    /\ lastOp' = Other("approve_payments")
    /\ ret' = NoRet
    /\ UNCHANGED <<workers, enrollments, requests, instr, hours, computed, payments, expenses, members, mf, dist, edits>>

\* InstructorPaymentAdmin.mark_as_paid on the selected rows
MarkPaymentsPaid(sel, today) ==
    /\ \E k \in sel : ipay[k].status = "approved"
    /\ ipay' = [k \in 1..Len(ipay) |->
                  IF k \in sel /\ ipay[k].status = "approved"
                  THEN [ipay[k] EXCEPT !.status = "paid", !.payment_date = today]
                  ELSE ipay[k]]
    /\ lastOp' = Other("mark_payments_paid")
    /\ ret' = NoRet
    /\ UNCHANGED <<workers, enrollments, requests, instr, hours, computed, payments, expenses, members, mf, dist, edits>>

\* InstructorPaymentAdmin change form: status set to 'cancelled'
CancelPayment(k) ==
    /\ ipay[k].status = "pending"
    /\ ipay' = [ipay EXCEPT ![k].status = "cancelled"]
    /\ lastOp' = Other("cancel_payment")
    /\ ret' = NoRet
    /\ UNCHANGED <<workers, enrollments, requests, instr, hours, computed, payments, expenses, members, mf, dist, edits>>

\* InstructorPaymentAdmin.calculate_amounts on the selected rows
AdminCalculateAmounts(sel) ==
    /\ sel # {}
    /\ ipay' = [k \in 1..Len(ipay) |->
                  IF k \in sel
                  THEN CalculateAmounts(ipay[k], instr[ipay[k].instructor].tax_rate_percentage)
                  ELSE ipay[k]]
    /\ lastOp' = Other("admin_calculate_amounts")
    /\ ret' = NoRet
    /\ UNCHANGED <<workers, enrollments, requests, instr, hours, computed, payments, expenses, members, mf, dist, edits>>

----------------------------------------------------------------------------
(* Initial state: the registries as first entered, no computed rows *)

\* concurrent calculation workers and concurrent enroll_student requests
Workers == {1, 2}
Requests == {1, 2, 3}
Idle == [pc |-> "idle"]
NoRequest == [pc |-> "none"]

Payments == {1, 2}
Expenses == {1, 2}
Members == {1, 2}

Init ==
    /\ instr = [i \in Instructors |->
                  [status |-> "active", hourly_rate |-> 15000, tax_rate_percentage |-> 1000]]
    /\ hours = [x \in Instructors \X Courses |-> 0]
    /\ ipay = <<>>
    /\ computed = <<>>
    /\ payments = [p \in Payments |->
                     [status |-> "pending", amount |-> 1000000, amount_paid |-> 0,
                      payment_date |-> NullDate]]
    /\ expenses = [e \in Expenses |->
                     [status |-> "pending", amount |-> 300000, period_month |-> <<2024, 12, 1>>]]
    /\ members = [m \in Members |->
                    [status |-> "active", employment_status |-> "private",
                     share_percentage |-> 1500]]
    /\ mf = <<>>
    /\ dist = <<>>
    /\ lastOp = Other("init")
    /\ edits = 0
    /\ ret = NoRet
    /\ workers = [w \in Workers |-> Idle]
    /\ enrollments = <<>>
    /\ requests = [q \in Requests |-> NoRequest]

----------------------------------------------------------------------------
(* Instructor payment pipeline: hours, rates, taxes, the calculator and the
   admin actions on its rows, for December 2024 *)

PayCourses == {1, 2}
PayMonths == {<<2024, 12, 1>>}

NextPay ==
    \/ \E i \in Instructors, c \in PayCourses, h \in HourValues : SetHoursTaught(i, c, h)
    \/ \E i \in Instructors, r \in RateValues : SetHourlyRate(i, r)
    \/ \E i \in Instructors, t \in TaxValues : SetTaxRate(i, t)
    \/ \E i \in Instructors, s \in InstructorStatuses : SetInstructorStatus(i, s)
    \/ \E i \in Instructors, d \in PayMonths : AdminAddInstructorPayment(i, d)
    \/ \E d \in PayDates : CalculateInstructorPayments(d)
    \/ \E sel \in SUBSET (1..Len(ipay)) : AdminCalculateAmounts(sel)

SpecPay == Init /\ [][NextPay]_vars

\* the instructor payment calculator with saves that can raise
FailingSaves == 0..3

NextFailing ==
    \/ \E i \in Instructors, c \in PayCourses, h \in HourValues : SetHoursTaught(i, c, h)
    \/ \E i \in Instructors, r \in RateValues : SetHourlyRate(i, r)
    \/ \E i \in Instructors, d \in PayMonths : AdminAddInstructorPayment(i, d)
    \/ \E d \in PayMonths : CalculateInstructorPayments(d)
    \/ \E d \in PayMonths, left \in FailingSaves : CalculateInstructorPaymentsFailing(d, left)

SpecFailing == Init /\ [][NextFailing]_vars

----------------------------------------------------------------------------
(* Monthly settlement: calculate_monthly_profit and the member allocator *)

\* variant: the status filter is missing
RevenuePaymentsAnyStatus(first_day, last_day) ==
    {p \in Payments :
        /\ payments[p].payment_date # NullDate
        /\ DateLE(first_day, payments[p].payment_date)
        /\ DateLE(payments[p].payment_date, last_day)}

\* Payment rows with payment_date in [first_day, last_day] and status 'paid'
\* (a NULL payment_date satisfies neither comparison)
RevenuePayments(first_day, last_day) ==
    {p \in Payments :
        /\ payments[p].payment_date # NullDate
        /\ DateLE(first_day, payments[p].payment_date)
        /\ DateLE(payments[p].payment_date, last_day)
        /\ payments[p].status = "paid"}

\* Sum('amount_paid') over those rows
TotalRevenue(first_day, last_day) ==
    SumOver(RevenuePayments(first_day, last_day), [p \in Payments |-> payments[p].amount_paid])

\* variant: pending rows are summed as well
CountedPaymentRowsAll(first_day) ==
    {k \in 1..Len(ipay) :
        /\ ipay[k].period_month = first_day
        /\ ipay[k].status \in {"pending", "approved", "paid"}}

\* InstructorPayment rows with period_month=first_day, status in approved/paid
CountedPaymentRows(first_day) ==
    {k \in 1..Len(ipay) :
        /\ ipay[k].period_month = first_day
        /\ ipay[k].status \in {"approved", "paid"}}

\* Sum('net_amount') over those rows
InstructorPaymentsTotal(first_day) ==
    SumOver(CountedPaymentRows(first_day), [k \in 1..Len(ipay) |-> ipay[k].net_amount])

\* Expense rows with period_month=first_day (exact date) and status 'paid'
CountedExpenses(first_day) ==
    {e \in Expenses : expenses[e].period_month = first_day /\ expenses[e].status = "paid"}

\* Sum('amount') over those rows
OperationalExpenses(first_day) ==
    SumOver(CountedExpenses(first_day), [e \in Expenses |-> expenses[e].amount])

\* MonthlyFinancial(period_month=first_day) with every other field at its default
NewSummary(first_day) ==
    [period_month |-> first_day,
     total_revenue |-> 0, instructor_payments |-> 0, operational_expenses |-> 0,
     other_expenses |-> 0, total_expenses |-> 0, gross_profit |-> 0,
     retained_earnings |-> 0, distributable_profit |-> 0,
     is_finalized |-> FALSE, finalized_date |-> NullDate, notes |-> ""]

\* rows matched by the lookup period_month=first_day
SummaryMatches(table, first_day) ==
    {k \in 1..Len(table) : table[k].period_month = first_day}

\* variant: a loss is stored as zero profit
CalculateTotalsFloored(row) ==
    LET total_expenses == row.instructor_payments + row.operational_expenses + row.other_expenses
        profit == row.total_revenue - total_expenses
    IN [row EXCEPT !.total_expenses = total_expenses,
                   !.gross_profit = IF profit < 0 THEN 0 ELSE profit]

\* MonthlyFinancial.calculate_totals
CalculateTotals(row) ==
    LET total_expenses == row.instructor_payments + row.operational_expenses + row.other_expenses
    IN [row EXCEPT !.total_expenses = total_expenses,
                   !.gross_profit = row.total_revenue - total_expenses]

\* rows matched by the lookup (member, monthly_financial)
DistributionMatches(table, m, k) ==
    {n \in 1..Len(table) : table[n].member = m /\ table[n].monthly_financial = k}

\* variant: the employment status is not looked at
CanReceiveProfitAnyEmployer(m) == members[m].status = "active"

\* Member.can_receive_profit
CanReceiveProfit(m) ==
    members[m].employment_status # "public" /\ members[m].status = "active"

\* variant: only the members who can receive profit are served
ActiveMembersEligibleOnly == Ascending({m \in Members : CanReceiveProfit(m)})

\* Member.objects.filter(status='active'), Meta.ordering = ['full_name']
ActiveMembers == Ascending({m \in Members : members[m].status = "active"})

\* variant: the profit is split in proportion to the active members' shares
DistributionDefaultsProRata(m, d4) ==
    LET total_shares ==
            SumOver({x \in Members : members[x].status = "active"},
                    [x \in Members |-> members[x].share_percentage])
    IN [share_percentage |-> members[m].share_percentage,
        amount |-> RoundHalfAway((d4 \div total_shares) * members[m].share_percentage, 100),
        status |-> IF CanReceiveProfit(m) THEN "pending" ELSE "cancelled",
        is_public_employee |-> (members[m].employment_status = "public")]

\* the defaults of the allocator's update_or_create for member m; d4 is the
\* summary's in-memory (unrounded) distributable_profit in 1e-4 DH, so
\* d4 * share / 100 is d4 * share_percentage in 1e-8 DH.  MemberDistribution.save
\* sets is_public_employee from the member.
DistributionDefaults(m, d4) ==
    [share_percentage |-> members[m].share_percentage,
     amount |-> RoundMillionth(d4, members[m].share_percentage),
     status |-> IF CanReceiveProfit(m) THEN "pending" ELSE "cancelled",
     is_public_employee |-> (members[m].employment_status = "public")]

RECURSIVE DistributionLoop(_, _, _, _)
\* for member in members: update_or_create(member, monthly_financial, defaults)
DistributionLoop(todo, table, k, d4) ==
    IF todo = <<>> THEN table
    ELSE
      LET m == Head(todo)
          dflt == DistributionDefaults(m, d4)
          found == DistributionMatches(table, m, k)
      IN IF found = {}
         THEN DistributionLoop(Tail(todo),
                  Append(table,
                         [member |-> m, monthly_financial |-> k,
                          share_percentage |-> dflt.share_percentage,
                          amount |-> dflt.amount, status |-> dflt.status,
                          is_public_employee |-> dflt.is_public_employee,
                          payment_date |-> NullDate]),
                  k, d4)
         ELSE LET n == CHOOSE x \in found : TRUE
              IN DistributionLoop(Tail(todo),
                     [table EXCEPT ![n] =
                         [@ EXCEPT !.share_percentage = dflt.share_percentage,
                                   !.amount = dflt.amount,
                                   !.status = dflt.status,
                                   !.is_public_employee = dflt.is_public_employee]],
                     k, d4)

\* variant: no guard on the sum of the shares
CreateMemberDistributionsUnguarded(table, k, d4) ==
    DistributionLoop(ActiveMembers, table, k, d4)

\* FinancialCalculationService._create_member_distributions(monthly_financial)
CreateMemberDistributions(table, k, d4) ==
    LET total_shares ==
            SumOver({m \in Members : members[m].status = "active"},
                    [m \in Members |-> members[m].share_percentage])
    IN IF total_shares = 0 THEN table
       ELSE DistributionLoop(ActiveMembers, table, k, d4)

\* variant: other_expenses is not among the defaults
SummaryDefaultsKeepOther(row, total_revenue, instructor_payments, operational_expenses) ==
    [row EXCEPT !.total_revenue = total_revenue,
                !.instructor_payments = instructor_payments,
                !.operational_expenses = operational_expenses]

\* calculate_monthly_profit: the defaults update_or_create writes on the row
SummaryDefaults(row, total_revenue, instructor_payments, operational_expenses) ==
    [row EXCEPT !.total_revenue = total_revenue,
                !.instructor_payments = instructor_payments,
                !.operational_expenses = operational_expenses,
                !.other_expenses = 0]

\* FinancialCalculationService.calculate_monthly_profit(period_month, r).
\* r is the request value: [valid, pct]; Decimal(r) raises when it is not a number.
CalculateMonthlyProfit(period_month, r) ==
    LET first_day == FirstDay(period_month)
        last_day  == LastDay(period_month)
        found     == SummaryMatches(mf, first_day)
        k         == IF found = {} THEN Len(mf) + 1 ELSE CHOOSE x \in found : TRUE
        base      == IF found = {} THEN NewSummary(first_day) ELSE mf[k]
        upd       == SummaryDefaults(base, TotalRevenue(first_day, last_day),
                                     InstructorPaymentsTotal(first_day),
                                     OperationalExpenses(first_day))
        totals    == CalculateTotals(upd)
        r4        == totals.gross_profit * r.pct                 \* retained, 1e-4 DH
        d4        == totals.gross_profit * 100 - r4              \* distributable, 1e-4 DH
        final     == IF r.valid
                     THEN [totals EXCEPT !.retained_earnings = RoundHalfAway(r4, 100),
                                         !.distributable_profit = RoundHalfAway(d4, 100)]
                     ELSE totals
        put(row)  == IF found = {} THEN Append(mf, row) ELSE [mf EXCEPT ![k] = row]
    IN /\ mf' = put(final)
       /\ dist' = IF r.valid /\ d4 > 0 THEN CreateMemberDistributions(dist, k, d4) ELSE dist
       /\ ret' = [ok |-> r.valid, rows |-> <<k>>]
       /\ lastOp' = [Called("calculate_monthly_profit", period_month) EXCEPT !.pct = r.pct]
       /\ UNCHANGED <<workers, enrollments, requests, instr, hours, ipay, computed, payments, expenses, members, edits>>

----------------------------------------------------------------------------
(* Ledger edits *)

\* PaymentAdmin.mark_as_paid -> Payment.mark_as_paid() on one payment
AdminMarkPaymentPaid(p, today) ==
    /\ edits < MaxEdits
    /\ edits' = edits + 1
    /\ payments[p].status # "paid"
    /\ LET amount_paid == payments[p].amount
       IN payments' = [payments EXCEPT
                         ![p].amount_paid = amount_paid,
                         ![p].payment_date = today,
                         ![p].status = IF amount_paid >= payments[p].amount THEN "paid"
                                       ELSE IF amount_paid > 0 THEN "partially_paid"
                                       ELSE payments[p].status]
    /\ lastOp' = Other("mark_payment_paid")
    /\ ret' = NoRet
    /\ UNCHANGED <<workers, enrollments, requests, instr, hours, ipay, computed, expenses, members, mf, dist>>

\* PaymentViewSet (ModelViewSet) partial update of status
PatchPaymentStatus(p, s) ==
    /\ edits < MaxEdits
    /\ edits' = edits + 1
    /\ payments[p].status # s
    /\ payments' = [payments EXCEPT ![p].status = s]
    /\ lastOp' = Other("patch_payment_status")
    /\ ret' = NoRet
    /\ UNCHANGED <<workers, enrollments, requests, instr, hours, ipay, computed, expenses, members, mf, dist>>

\* PaymentViewSet (ModelViewSet) partial update of payment_date (nullable)
PatchPaymentDate(p, d) ==
    /\ edits < MaxEdits
    /\ edits' = edits + 1
    /\ payments[p].payment_date # d
    /\ payments' = [payments EXCEPT ![p].payment_date = d]
    /\ lastOp' = Other("patch_payment_date")
    /\ ret' = NoRet
    /\ UNCHANGED <<workers, enrollments, requests, instr, hours, ipay, computed, expenses, members, mf, dist>>

\* ExpenseAdmin change form: period_month accepts any date
SetExpensePeriod(e, d) ==
    /\ edits < MaxEdits
    /\ edits' = edits + 1
    /\ expenses[e].period_month # d
    /\ expenses' = [expenses EXCEPT ![e].period_month = d]
    /\ lastOp' = Other("set_expense_period")
    /\ ret' = NoRet
    /\ UNCHANGED <<workers, enrollments, requests, instr, hours, ipay, computed, payments, members, mf, dist>>

\* ExpenseAdmin.approve_expenses on one expense
ApproveExpense(e) ==
    /\ edits < MaxEdits
    /\ edits' = edits + 1
    /\ expenses[e].status = "pending"
    /\ expenses' = [expenses EXCEPT ![e].status = "approved"]
    /\ lastOp' = Other("approve_expense")
    /\ ret' = NoRet
    /\ UNCHANGED <<workers, enrollments, requests, instr, hours, ipay, computed, payments, members, mf, dist>>

\* ExpenseAdmin.mark_as_paid on one expense
MarkExpensePaid(e) ==
    /\ edits < MaxEdits
    /\ edits' = edits + 1
    /\ expenses[e].status = "approved"
    /\ expenses' = [expenses EXCEPT ![e].status = "paid"]
    /\ lastOp' = Other("mark_expense_paid")
    /\ ret' = NoRet
    /\ UNCHANGED <<workers, enrollments, requests, instr, hours, ipay, computed, payments, members, mf, dist>>

\* PaymentAdmin change form / PaymentViewSet update: amount is an editable field
SetPaymentAmount(p, a) ==
    /\ edits < MaxEdits
    /\ edits' = edits + 1
    /\ payments[p].amount # a
    /\ payments' = [payments EXCEPT ![p].amount = a]
    /\ lastOp' = Other("set_payment_amount")
    /\ ret' = NoRet
    /\ UNCHANGED <<workers, enrollments, requests, instr, hours, ipay, computed, expenses, members, mf, dist>>

\* MemberAdmin change form / MemberViewSet update: share_percentage
SetSharePercentage(m, sh) ==
    /\ edits < MaxEdits
    /\ edits' = edits + 1
    /\ members[m].share_percentage # sh
    /\ members' = [members EXCEPT ![m].share_percentage = sh]
    /\ lastOp' = Other("set_share_percentage")
    /\ ret' = NoRet
    /\ UNCHANGED <<workers, enrollments, requests, instr, hours, ipay, computed, payments, expenses, mf, dist>>

\* MemberAdmin change form / MemberViewSet update: employment_status
SetEmploymentStatus(m, e) ==
    /\ edits < MaxEdits
    /\ edits' = edits + 1
    /\ members[m].employment_status # e
    /\ members' = [members EXCEPT ![m].employment_status = e]
    /\ lastOp' = Other("set_employment_status")
    /\ ret' = NoRet
    /\ UNCHANGED <<workers, enrollments, requests, instr, hours, ipay, computed, payments, expenses, mf, dist>>

\* MemberAdmin.activate_members / deactivate_members on one member
SetMemberStatus(m, st) ==
    /\ edits < MaxEdits
    /\ edits' = edits + 1
    /\ members[m].status # st
    /\ members' = [members EXCEPT ![m].status = st]
    /\ lastOp' = Other("set_member_status")
    /\ ret' = NoRet
    /\ UNCHANGED <<workers, enrollments, requests, instr, hours, ipay, computed, payments, expenses, mf, dist>>

\* MonthlyFinancialAdmin.finalize_periods on the selected summaries
FinalizePeriods(sel, today) ==
    /\ sel # {}
    /\ mf' = [k \in 1..Len(mf) |->
                IF k \in sel /\ ~mf[k].is_finalized
                THEN [mf[k] EXCEPT !.is_finalized = TRUE, !.finalized_date = today]
                ELSE mf[k]]
    /\ lastOp' = Other("finalize_periods")
    /\ ret' = NoRet
    /\ UNCHANGED <<workers, enrollments, requests, instr, hours, ipay, computed, payments, expenses, members, dist, edits>>

\* MonthlyFinancialAdmin.recalculate_totals on the selected summaries
RecalculateTotals(sel) ==
    /\ sel # {}
    /\ mf' = [k \in 1..Len(mf) |-> IF k \in sel THEN CalculateTotals(mf[k]) ELSE mf[k]]
    /\ lastOp' = Other("recalculate_totals")
    /\ ret' = NoRet
    /\ UNCHANGED <<workers, enrollments, requests, instr, hours, ipay, computed, payments, expenses, members, dist, edits>>

\* MonthlyFinancialAdmin change form: other_expenses is an editable field
SetOtherExpenses(k, v) ==
    /\ edits < MaxEdits
    /\ edits' = edits + 1
    /\ mf[k].other_expenses # v
    /\ mf' = [mf EXCEPT ![k].other_expenses = v]
    /\ lastOp' = Other("set_other_expenses")
    /\ ret' = NoRet
    /\ UNCHANGED <<workers, enrollments, requests, instr, hours, ipay, computed, payments, expenses, members, dist>>

\* MonthlyFinancialAdmin change form: notes is an editable field
SetNotes(k, v) ==
    /\ edits < MaxEdits
    /\ edits' = edits + 1
    /\ mf[k].notes # v
    /\ mf' = [mf EXCEPT ![k].notes = v]
    /\ lastOp' = Other("set_notes")
    /\ ret' = NoRet
    /\ UNCHANGED <<workers, enrollments, requests, instr, hours, ipay, computed, payments, expenses, members, dist>>

----------------------------------------------------------------------------
(* Settlement pipeline: each ledger that feeds the settlement, against the
   settlement calculator *)

PaymentDates == {<<2024, 11, 30>>, <<2024, 12, 1>>, <<2024, 12, 31>>}
PatchedDates == {NullDate, <<2025, 1, 1>>}
PatchedStatuses == {"paid", "refunded"}
ExpensePeriods == {<<2024, 12, 1>>, <<2024, 12, 15>>, <<2024, 11, 1>>}
ProfitDates == {<<2024, 12, 1>>, <<2024, 12, 15>>, <<2024, 11, 30>>}
\* request values of retained_earnings_percentage: the default, a number
\* above 100, and a value Decimal() rejects
DefaultRetention == [valid |-> TRUE, pct |-> 20]
RetentionInputs == {DefaultRetention, [valid |-> TRUE, pct |-> 150], [valid |-> FALSE, pct |-> 0]}
RevenueRetention == {DefaultRetention, [valid |-> FALSE, pct |-> 0]}

\* student payments against the settlement of two months
NextRevenue ==
    \/ \E p \in Payments, today \in PaymentDates : AdminMarkPaymentPaid(p, today)
    \/ \E p \in Payments, st \in PatchedStatuses : PatchPaymentStatus(p, st)
    \/ \E p \in Payments, d \in PatchedDates : PatchPaymentDate(p, d)
    \/ \E d \in ProfitDates, r \in RevenueRetention : CalculateMonthlyProfit(d, r)

SpecRevenue == Init /\ [][NextRevenue]_vars

\* instructor payment rows and their approval against the December settlement
NextPayroll ==
    \/ \E i \in Instructors, d \in PayMonths : AdminAddInstructorPayment(i, d)
    \/ \E sel \in SUBSET (1..Len(ipay)) : ApprovePayments(sel)
    \/ \E sel \in SUBSET (1..Len(ipay)), today \in PayDates : MarkPaymentsPaid(sel, today)
    \/ \E k \in 1..Len(ipay) : CancelPayment(k)
    \/ \E p \in Payments, today \in PayDates : AdminMarkPaymentPaid(p, today)
    \/ \E d \in PayDates, r \in RetentionInputs : CalculateMonthlyProfit(d, r)

SpecPayroll == Init /\ [][NextPayroll]_vars

\* expenses against the December settlement
NextExpenses ==
    \/ \E e \in Expenses, d \in ExpensePeriods : SetExpensePeriod(e, d)
    \/ \E e \in Expenses : ApproveExpense(e)
    \/ \E e \in Expenses : MarkExpensePaid(e)
    \/ \E p \in Payments, today \in PayDates : AdminMarkPaymentPaid(p, today)
    \/ \E d \in PayDates, r \in RetentionInputs : CalculateMonthlyProfit(d, r)

SpecExpenses == Init /\ [][NextExpenses]_vars

----------------------------------------------------------------------------
(* HTTP layer: FinancialViewSet.  The period_month of a request is the triple
   of numbers its text spells (NullDate when the field is missing or empty);
   date.fromisoformat accepts it only when it names a day of the calendar. *)

\* variant: the month and day are not checked against the calendar
FromIsoFormatUnchecked(t) == [ok |-> TRUE, date |-> t]

\* date.fromisoformat(period_month): ValueError unless the text names a real date
FromIsoFormat(t) ==
    [ok |-> /\ t[1] \in 1..9999
            /\ t[2] \in 1..12
            /\ t[3] \in 1..DaysInMonth(t[1], t[2]),
     date |-> t]

\* the response status of the last request: 201 after a completed service
\* call, 400 otherwise
ResponseStatus == IF ret.ok THEN 201 ELSE 400

\* the 400 answer given before the service is called
BadRequest(op, req) ==
    /\ lastOp' = [op |-> op, period |-> req, again |-> FALSE, pct |-> 0]
    /\ ret' = [ok |-> FALSE, rows |-> <<>>]
    /\ UNCHANGED <<workers, enrollments, requests, instr, hours, ipay, computed, payments, expenses, members, mf, dist, edits>>

\* FinancialViewSet.calculate_instructor_payments
PostCalculateInstructorPayments(req) ==
    IF req = NullDate \/ ~FromIsoFormat(req).ok
    THEN BadRequest("post_calculate_instructor_payments", req)
    ELSE CalculateInstructorPayments(FromIsoFormat(req).date)

\* FinancialViewSet.calculate_monthly_profit
PostCalculateMonthlyProfit(req, r) ==
    IF req = NullDate \/ ~FromIsoFormat(req).ok
    THEN BadRequest("post_calculate_monthly_profit", req)
    ELSE CalculateMonthlyProfit(FromIsoFormat(req).date, r)

\* request values of period_month: missing, 30 February, 29 February of a
\* common year, and a real date
RequestDates == {NullDate, <<2024, 2, 30>>, <<2025, 2, 29>>, <<2024, 12, 1>>}

\* requests against both calculators, with payment rows and student payments
\* changing in between
NextRequests ==
    \/ \E i \in Instructors, d \in PayMonths : AdminAddInstructorPayment(i, d)
    \/ \E p \in Payments, today \in PayDates : AdminMarkPaymentPaid(p, today)
    \/ \E req \in RequestDates : PostCalculateInstructorPayments(req)
    \/ \E req \in RequestDates, r \in RevenueRetention : PostCalculateMonthlyProfit(req, r)

SpecRequests == Init /\ [][NextRequests]_vars

\* the arithmetic of the December settlement and its finalization
AmountValues == {1000001}
OtherExpenseValues == {50000}
SettleDates == {<<2024, 12, 15>>}
SettleRetention ==
    {DefaultRetention, [valid |-> TRUE, pct |-> 50], [valid |-> TRUE, pct |-> 150],
     [valid |-> FALSE, pct |-> 0]}

NextSettle ==
    \/ \E p \in Payments, a \in AmountValues : SetPaymentAmount(p, a)
    \/ \E p \in Payments, today \in SettleDates : AdminMarkPaymentPaid(p, today)
    \/ \E e \in Expenses : ApproveExpense(e)
    \/ \E e \in Expenses : MarkExpensePaid(e)
    \/ \E d \in PayMonths, r \in SettleRetention : CalculateMonthlyProfit(d, r)
    \/ \E sel \in SUBSET (1..Len(mf)), today \in SettleDates : FinalizePeriods(sel, today)
    \/ \E sel \in SUBSET (1..Len(mf)) : RecalculateTotals(sel)
    \/ \E k \in 1..Len(mf), v \in OtherExpenseValues : SetOtherExpenses(k, v)

SpecSettle == Init /\ [][NextSettle]_vars

\* the member registry against the December settlement and its allocator
ShareValues == {0, 5000}
EmploymentValues == {"public", "private"}
MemberStatuses == {"active", "inactive"}

NextMembers ==
    \/ \E m \in Members, sh \in ShareValues : SetSharePercentage(m, sh)
    \/ \E m \in Members, e \in EmploymentValues : SetEmploymentStatus(m, e)
    \/ \E m \in Members, st \in MemberStatuses : SetMemberStatus(m, st)
    \/ \E p \in Payments, today \in SettleDates : AdminMarkPaymentPaid(p, today)
    \/ \E e \in Expenses : ApproveExpense(e)
    \/ \E e \in Expenses : MarkExpensePaid(e)
    \/ \E d \in PayMonths, r \in RetentionInputs : CalculateMonthlyProfit(d, r)

SpecMembers == Init /\ [][NextMembers]_vars

----------------------------------------------------------------------------
(* Concurrent calculations: each worker runs one service call, one database
   statement (or one locked get-and-save) per step.  update_or_create is
   get -> (DoesNotExist) create -> (IntegrityError) get again -> set the
   defaults and save. *)

\* variant: the table has no uniqueness constraint on period_month
SummaryInsertRejectedNever(table, first_day) == FALSE

\* MonthlyFinancial.period_month unique=True: the INSERT raises IntegrityError
\* when a row for the date is already stored
SummaryInsertRejected(table, first_day) == SummaryMatches(table, first_day) # {}

\* InstructorPayment unique_together (instructor, period_month)
PaymentInsertRejected(table, i, first_day) == PaymentMatches(table, i, first_day) # {}

\* a worker step leaves the other workers and the untouched tables alone
WorkerStep(w, next, op) ==
    /\ workers' = [workers EXCEPT ![w] = next]
    /\ lastOp' = Other(op)
    /\ ret' = NoRet
    /\ UNCHANGED <<instr, hours, computed, payments, expenses, members, edits,
                   enrollments, requests>>

\* the summary object after the defaults of update_or_create are set on it
WithSummaryDefaults(row, me) ==
    SummaryDefaults(row, me.total_revenue, me.instructor_payments, me.operational_expenses)

\* calculate_monthly_profit, lines 83-106: the window and the three aggregates
ProfitBegin(w, period_month, r) ==
    /\ workers[w].pc = "idle"
    /\ WorkerStep(w, [pc |-> "profit_get", period |-> period_month, r |-> r,
                      total_revenue |-> TotalRevenue(FirstDay(period_month), LastDay(period_month)),
                      instructor_payments |-> InstructorPaymentsTotal(FirstDay(period_month)),
                      operational_expenses |-> OperationalExpenses(FirstDay(period_month))],
                  "profit_begin")
    /\ UNCHANGED <<ipay, mf, dist>>

\* update_or_create: select_for_update().get(); a row found is locked, given
\* the defaults and saved
ProfitGet(w) ==
    LET me == workers[w]
        found == SummaryMatches(mf, FirstDay(me.period))
    IN /\ me.pc = "profit_get"
       /\ IF found = {}
          THEN /\ WorkerStep(w, [me EXCEPT !.pc = "profit_insert"], "profit_get")
               /\ UNCHANGED <<ipay, mf, dist>>
          ELSE LET k == CHOOSE x \in found : TRUE
                   row == WithSummaryDefaults(mf[k], me)
               IN /\ mf' = [mf EXCEPT ![k] = row]
                  /\ WorkerStep(w, [pc |-> "profit_totals", period |-> me.period, r |-> me.r,
                                    k |-> k, row |-> row], "profit_get")
                  /\ UNCHANGED <<ipay, dist>>

\* update_or_create: create(); on IntegrityError the row is fetched again,
\* given the defaults and saved
ProfitInsert(w) ==
    LET me == workers[w]
        first_day == FirstDay(me.period)
        found == SummaryMatches(mf, first_day)
    IN /\ me.pc = "profit_insert"
       /\ IF SummaryInsertRejected(mf, first_day)
          THEN LET k == CHOOSE x \in found : TRUE
                   row == WithSummaryDefaults(mf[k], me)
               IN /\ mf' = [mf EXCEPT ![k] = row]
                  /\ WorkerStep(w, [pc |-> "profit_totals", period |-> me.period, r |-> me.r,
                                    k |-> k, row |-> row], "profit_insert")
          ELSE LET row == WithSummaryDefaults(NewSummary(first_day), me)
               IN /\ mf' = Append(mf, row)
                  /\ WorkerStep(w, [pc |-> "profit_totals", period |-> me.period, r |-> me.r,
                                    k |-> Len(mf) + 1, row |-> row], "profit_insert")
       /\ UNCHANGED <<ipay, dist>>

\* calculate_totals, the retained / distributable assignment, save, and the
\* allocator: the worker's summary object is written back whole
ProfitFinish(w) ==
    LET me == workers[w]
        totals == CalculateTotals(me.row)
        r4 == totals.gross_profit * me.r.pct
        d4 == totals.gross_profit * 100 - r4
        final == IF me.r.valid
                 THEN [totals EXCEPT !.retained_earnings = RoundHalfAway(r4, 100),
                                     !.distributable_profit = RoundHalfAway(d4, 100)]
                 ELSE totals
    IN /\ me.pc = "profit_totals"
       /\ mf' = [mf EXCEPT ![me.k] = final]
       /\ dist' = IF me.r.valid /\ d4 > 0 THEN CreateMemberDistributions(dist, me.k, d4) ELSE dist
       /\ workers' = [workers EXCEPT ![w] = Idle]
       /\ lastOp' = [Called("calculate_monthly_profit", me.period) EXCEPT !.pct = me.r.pct]
       /\ ret' = [ok |-> me.r.valid, rows |-> <<me.k>>]
       /\ UNCHANGED <<instr, hours, ipay, computed, payments, expenses, members, edits,
                      enrollments, requests>>

\* calculate_instructor_payments, lines 31-41: the window and the instructors
PayBegin(w, period_month) ==
    /\ workers[w].pc = "idle"
    /\ WorkerStep(w, [pc |-> "pay_get", period |-> period_month,
                      todo |-> ActiveInstructors, rows |-> <<>>], "pay_begin")
    /\ UNCHANGED <<ipay, mf, dist>>

\* the end of a worker's calculate_instructor_payments call
PayReturn(w, ok) ==
    /\ workers' = [workers EXCEPT ![w] = Idle]
    /\ lastOp' = Called("calculate_instructor_payments", workers[w].period)
    /\ ret' = [ok |-> ok, rows |-> workers[w].rows]
    /\ UNCHANGED <<instr, hours, ipay, computed, payments, expenses, members, mf, dist, edits,
                   enrollments, requests>>

\* one turn of the loop up to the get of update_or_create: the hours
\* aggregate, then the locked get; a row found is given the defaults and saved
PayGet(w) ==
    LET me == workers[w]
    IN /\ me.pc = "pay_get"
       /\ IF me.todo = <<>> THEN PayReturn(w, TRUE)
          ELSE
            LET i == Head(me.todo)
                first_day == FirstDay(me.period)
                total_hours == TotalHours(i, first_day, LastDay(me.period))
                found == PaymentMatches(ipay, i, first_day)
            IN IF total_hours = 0
               THEN /\ WorkerStep(w, [me EXCEPT !.todo = Tail(me.todo)], "pay_get")
                    /\ UNCHANGED <<ipay, mf, dist>>
               ELSE IF found = {}
               THEN /\ WorkerStep(w, [pc |-> "pay_insert", period |-> me.period,
                                      todo |-> me.todo, rows |-> me.rows,
                                      total_hours |-> total_hours], "pay_get")
                    /\ UNCHANGED <<ipay, mf, dist>>
               ELSE LET k == CHOOSE x \in found : TRUE
                        row == ApplyPaymentDefaults(ipay[k], total_hours, instr[i].hourly_rate)
                    IN /\ ipay' = [ipay EXCEPT ![k] = row]
                       /\ WorkerStep(w, [pc |-> "pay_amounts", period |-> me.period,
                                         todo |-> me.todo, rows |-> me.rows,
                                         k |-> k, row |-> row], "pay_get")
                       /\ UNCHANGED <<mf, dist>>

\* update_or_create: create(); IntegrityError (a NOT NULL column left out, or
\* the uniqueness constraint) makes it fetch the row again, and re-raise when
\* there is none
PayInsert(w) ==
    LET me == workers[w]
        i == Head(me.todo)
        first_day == FirstDay(me.period)
        found == PaymentMatches(ipay, i, first_day)
        fresh == [instructor |-> i, period_month |-> first_day,
                  total_hours |-> me.total_hours, hourly_rate |-> instr[i].hourly_rate,
                  gross_amount |-> 0, tax_amount |-> 0, net_amount |-> 0,
                  status |-> "pending", payment_date |-> NullDate]
        go(k, row) == [pc |-> "pay_amounts", period |-> me.period, todo |-> me.todo,
                       rows |-> me.rows, k |-> k, row |-> row]
    IN /\ me.pc = "pay_insert"
       /\ IF /\ InsertAccepted(InstructorPaymentRequired, InstructorPaymentProvided)
             /\ ~PaymentInsertRejected(ipay, i, first_day)
          THEN /\ ipay' = Append(ipay, fresh)
               /\ computed' = Append(computed, NotComputed)
               /\ workers' = [workers EXCEPT ![w] = go(Len(ipay) + 1, fresh)]
               /\ lastOp' = Other("pay_insert")
               /\ ret' = NoRet
               /\ UNCHANGED <<instr, hours, payments, expenses, members, mf, dist, edits,
                              enrollments, requests>>
          ELSE IF found # {}
          THEN LET k == CHOOSE x \in found : TRUE
                   row == ApplyPaymentDefaults(ipay[k], me.total_hours, instr[i].hourly_rate)
               IN /\ ipay' = [ipay EXCEPT ![k] = row]
                  /\ WorkerStep(w, go(k, row), "pay_insert")
                  /\ UNCHANGED <<mf, dist>>
          ELSE PayReturn(w, FALSE)

\* payment.calculate_amounts(): the worker's row object is written back whole
PayAmounts(w) ==
    LET me == workers[w]
        i == Head(me.todo)
        row == CalculateAmounts(me.row, instr[i].tax_rate_percentage)
    IN /\ me.pc = "pay_amounts"
       /\ ipay' = [ipay EXCEPT ![me.k] = row]
       /\ computed' = [computed EXCEPT ![me.k] = ComputedAs(row)]
       /\ workers' = [workers EXCEPT ![w] =
                        [pc |-> "pay_get", period |-> me.period,
                         todo |-> Tail(me.todo), rows |-> Append(me.rows, me.k)]]
       /\ lastOp' = Other("pay_amounts")
       /\ ret' = NoRet
       /\ UNCHANGED <<instr, hours, payments, expenses, members, mf, dist, edits,
                      enrollments, requests>>

\* two workers running either calculator for dates of December 2024, while
\* hours are entered, payment rows are added by hand and a payment is received
ConcurrentCourses == {1}
ConcurrentHours == {125}
ConcurrentInstructors == {1}

NextConcurrent ==
    \/ \E w \in Workers, d \in PayDates : ProfitBegin(w, d, DefaultRetention)
    \/ \E w \in Workers : ProfitGet(w)
    \/ \E w \in Workers : ProfitInsert(w)
    \/ \E w \in Workers : ProfitFinish(w)
    \/ \E w \in Workers, d \in PayDates : PayBegin(w, d)
    \/ \E w \in Workers : PayGet(w)
    \/ \E w \in Workers : PayInsert(w)
    \/ \E w \in Workers : PayAmounts(w)
    \/ \E i \in ConcurrentInstructors, c \in ConcurrentCourses, h \in ConcurrentHours :
          SetHoursTaught(i, c, h)
    \/ \E i \in ConcurrentInstructors, d \in PayMonths : AdminAddInstructorPayment(i, d)
    \/ \E p \in Payments, today \in PayDates : AdminMarkPaymentPaid(p, today)

SpecConcurrent == Init /\ [][NextConcurrent]_vars

----------------------------------------------------------------------------
(* Reading a month's summary *)

RECURSIVE Gcd(_, _)
Gcd(a, b) == IF b = 0 THEN a ELSE Gcd(b, a % b)

\* the quotient n / d of two integers (d > 0) as a fraction in lowest terms
Quotient(n, d) ==
    LET g == Gcd(Abs(n), d)
    IN <<n \div g, d \div g>>

\* variant: the ratio itself, not a percentage
ProfitMarginAsRatio(row) ==
    IF row.total_revenue > 0
    THEN Quotient(row.gross_profit, row.total_revenue)
    ELSE <<0, 1>>

\* MonthlyFinancial.profit_margin, in percent.  The quotient is kept as an
\* exact fraction: Decimal division carries 28 significant digits, far below
\* the hundredths the two operands are stored in.
ProfitMargin(row) ==
    IF row.total_revenue > 0
    THEN Quotient(row.gross_profit * 100, row.total_revenue)
    ELSE <<0, 1>>

\* the dictionary get_financial_summary builds from a row.  Money stays in
\* hundredths: float() of a numeric(12,2) value is the nearest binary64,
\* which is a different number for every stored value and serialises back
\* to the same decimal digits.  'period' is strftime('%B %Y'): month and year.
SummaryView(row, first_day) ==
    [period |-> <<first_day[2], first_day[1]>>,
     total_revenue |-> row.total_revenue,
     total_expenses |-> row.total_expenses,
     gross_profit |-> row.gross_profit,
     retained_earnings |-> row.retained_earnings,
     distributable_profit |-> row.distributable_profit,
     profit_margin |-> ProfitMargin(row),
     is_finalized |-> row.is_finalized]

\* FinancialCalculationService.get_financial_summary; ret.ok = FALSE is None
GetFinancialSummary(period_month) ==
    LET first_day == FirstDay(period_month)
        found     == SummaryMatches(mf, first_day)
    IN /\ ret' = IF found = {}
                 THEN [ok |-> FALSE, rows |-> <<>>]
                 ELSE [ok |-> TRUE,
                       rows |-> <<SummaryView(mf[CHOOSE k \in found : TRUE], first_day)>>]
       /\ lastOp' = Called("get_financial_summary", period_month)
       /\ UNCHANGED <<workers, enrollments, requests, instr, hours, ipay, computed,
                      payments, expenses, members, mf, dist, edits>>

ReadDates == {<<2024, 12, 1>>, <<2024, 12, 15>>, <<2024, 11, 30>>}
ReadInstructors == {1}
ReadCourses == {2}
ReadPaymentDates == {<<2024, 12, 31>>, <<2024, 11, 30>>}

NextReads ==
    \/ \E i \in ReadInstructors, c \in ReadCourses, h \in HourValues : SetHoursTaught(i, c, h)
    \/ \E i \in ReadInstructors, d \in PayMonths : AdminAddInstructorPayment(i, d)
    \/ \E d \in ReadDates : CalculateInstructorPayments(d)
    \/ \E sel \in SUBSET (1..Len(ipay)) : ApprovePayments(sel)
    \/ \E p \in Payments, today \in ReadPaymentDates : AdminMarkPaymentPaid(p, today)
    \/ \E d \in ReadDates, r \in {DefaultRetention} : CalculateMonthlyProfit(d, r)
    \/ \E d \in ReadDates : GetFinancialSummary(d)

SpecReads == Init /\ [][NextReads]_vars

----------------------------------------------------------------------------
(* Re-running the payment calculator over approved rows and several months *)

RepayMonths == {<<2024, 11, 1>>, <<2024, 12, 1>>}
RepayCourses == {2}
RepayInstructors == {1}

NextRepay ==
    \/ \E i \in RepayInstructors, c \in RepayCourses, h \in HourValues : SetHoursTaught(i, c, h)
    \/ \E i \in RepayInstructors, d \in RepayMonths : AdminAddInstructorPayment(i, d)
    \/ \E d \in RepayMonths : CalculateInstructorPayments(d)
    \/ \E sel \in SUBSET (1..Len(ipay)) : ApprovePayments(sel)
    \/ \E sel \in SUBSET (1..Len(ipay)), today \in PayDates : MarkPaymentsPaid(sel, today)

SpecRepay == Init /\ [][NextRepay]_vars

----------------------------------------------------------------------------
(* Approving and paying member distributions *)

\* MemberDistributionAdmin.approve_distributions: a queryset update, which
\* filters on the flag stored on the row and does not call save()
ApproveDistributions(sel) ==
    /\ \E n \in sel : dist[n].status = "pending" /\ ~dist[n].is_public_employee
    /\ dist' = [n \in 1..Len(dist) |->
                  IF n \in sel /\ dist[n].status = "pending" /\ ~dist[n].is_public_employee
                  THEN [dist[n] EXCEPT !.status = "approved"] ELSE dist[n]]
    /\ lastOp' = Other("approve_distributions")
    /\ ret' = NoRet
    /\ UNCHANGED <<workers, enrollments, requests, instr, hours, ipay, computed, payments,
                   expenses, members, mf, edits>>

\* MemberDistributionAdmin.mark_as_paid
MarkDistributionsPaid(sel, today) ==
    /\ \E n \in sel : dist[n].status = "approved"
    /\ dist' = [n \in 1..Len(dist) |->
                  IF n \in sel /\ dist[n].status = "approved"
                  THEN [dist[n] EXCEPT !.status = "paid", !.payment_date = today]
                  ELSE dist[n]]
    /\ lastOp' = Other("mark_distributions_paid")
    /\ ret' = NoRet
    /\ UNCHANGED <<workers, enrollments, requests, instr, hours, ipay, computed, payments,
                   expenses, members, mf, edits>>

\* MemberDistribution.save on a stored row (the admin change form saved with
\* its status left as it is): the flag is taken again from the member
SaveDistribution(n) ==
    /\ dist[n].is_public_employee # (members[dist[n].member].employment_status = "public")
    /\ dist' = [dist EXCEPT
                  ![n].is_public_employee = (members[dist[n].member].employment_status = "public")]
    /\ lastOp' = Other("save_distribution")
    /\ ret' = NoRet
    /\ UNCHANGED <<workers, enrollments, requests, instr, hours, ipay, computed, payments,
                   expenses, members, mf, edits>>

NextPayout ==
    \/ \E m \in Members, e \in EmploymentValues : SetEmploymentStatus(m, e)
    \/ \E p \in Payments, today \in SettleDates : AdminMarkPaymentPaid(p, today)
    \/ \E d \in PayMonths, r \in {DefaultRetention} : CalculateMonthlyProfit(d, r)
    \/ \E sel \in SUBSET (1..Len(dist)) : ApproveDistributions(sel)
    \/ \E sel \in SUBSET (1..Len(dist)), today \in SettleDates : MarkDistributionsPaid(sel, today)
    \/ \E n \in 1..Len(dist) : SaveDistribution(n)

SpecPayout == Init /\ [][NextPayout]_vars

----------------------------------------------------------------------------
(* Enrolling students in one course: one database statement per step *)

Students == {1, 2, 3}
UnknownStudent == 4
MaxStudents == 2

\* Course.enrolled_count
EnrolledCount ==
    Cardinality({n \in 1..Len(enrollments) : enrollments[n].status = "active"})

\* Course.is_full
IsFull == EnrolledCount >= MaxStudents

\* Enrollment.Meta.unique_together = ('student', 'course')
EnrollmentInsertRejected(student) ==
    \E n \in 1..Len(enrollments) : enrollments[n].student = student

RequestStep(q, next, op) ==
    /\ requests' = [requests EXCEPT ![q] = next]
    /\ lastOp' = Other(op)
    /\ ret' = NoRet
    /\ UNCHANGED <<workers, instr, hours, ipay, computed, payments, expenses, members,
                   mf, dist, edits>>

Responded(code) == [pc |-> "done", status |-> code]

\* enroll_student up to the student lookup: the capacity check, then
\* Student.objects.get
EnrollCheckCapacity(q, student_id) ==
    /\ requests[q].pc = "none"
    /\ UNCHANGED enrollments
    /\ RequestStep(q,
                   IF IsFull THEN Responded(400)
                   ELSE IF student_id \notin Students THEN Responded(404)
                   ELSE [pc |-> "check_duplicate", student |-> student_id],
                   "enroll_check_capacity")

\* enroll_student: Enrollment.objects.filter(..., status='active').exists()
EnrollCheckDuplicate(q) ==
    /\ requests[q].pc = "check_duplicate"
    /\ UNCHANGED enrollments
    /\ RequestStep(q,
                   IF \E n \in 1..Len(enrollments) :
                          /\ enrollments[n].student = requests[q].student
                          /\ enrollments[n].status = "active"
                   THEN Responded(400)
                   ELSE [pc |-> "create", student |-> requests[q].student],
                   "enroll_check_duplicate")

\* enroll_student: Enrollment.objects.create; an IntegrityError is not caught
EnrollCreate(q) ==
    /\ requests[q].pc = "create"
    /\ IF EnrollmentInsertRejected(requests[q].student)
       THEN /\ UNCHANGED enrollments
            /\ RequestStep(q, Responded(500), "enroll_create")
       ELSE /\ enrollments' = Append(enrollments,
                                     [student |-> requests[q].student, status |-> "active"])
            /\ RequestStep(q, Responded(201), "enroll_create")

NextEnroll ==
    \/ \E q \in Requests, s \in Students \cup {UnknownStudent} : EnrollCheckCapacity(q, s)
    \/ \E q \in Requests : EnrollCheckDuplicate(q)
    \/ \E q \in Requests : EnrollCreate(q)

SpecEnroll == Init /\ [][NextEnroll]_vars

----------------------------------------------------------------------------
(* Re-running the settlement over a summary edited in the admin *)

NoteValues == {"audited"}

NextResettle ==
    \/ \E p \in Payments, today \in SettleDates : AdminMarkPaymentPaid(p, today)
    \/ \E i \in ReadInstructors, d \in PayMonths : AdminAddInstructorPayment(i, d)
    \/ \E sel \in SUBSET (1..Len(ipay)) : ApprovePayments(sel)
    \/ \E d \in PayMonths, r \in {DefaultRetention} : CalculateMonthlyProfit(d, r)
    \/ \E k \in 1..Len(mf), v \in OtherExpenseValues : SetOtherExpenses(k, v)
    \/ \E k \in 1..Len(mf), v \in NoteValues : SetNotes(k, v)
    \/ \E sel \in SUBSET (1..Len(mf)), today \in SettleDates : FinalizePeriods(sel, today)

SpecResettle == Init /\ [][NextResettle]_vars

----------------------------------------------------------------------------
(* Claims about the instructor payment calculator (SpecPay) *)

IsPayCall == lastOp.op = "calculate_instructor_payments"

\* C1: calculate_instructor_payments is idempotent: a second call for the
\* same month directly after a first one, with no input change in between,
\* leaves every InstructorPayment row as the first call left it and adds no row.
C1_Idempotent ==
    [][(lastOp'.op = "calculate_instructor_payments" /\ lastOp'.again) => ipay' = ipay]_vars

\* a second consecutive run that found rows to recompute and completed
C1_Witness ==
    /\ IsPayCall /\ lastOp.again
    /\ ret.ok /\ Len(ret.rows) = 2
    /\ \E k \in 1..Len(ipay) : ipay[k].total_hours = 250

\* C2: after calculate_instructor_payments(M) the call has completed and every
\* active instructor with hours > 0 in M has exactly one row keyed
\* (instructor, first day of M) with total_hours = the sum, hourly_rate = the
\* instructor's current rate, status pending, and the row is in the returned list.
C2_UpsertForEveryPaidInstructor ==
    IsPayCall =>
        LET first_day == FirstDay(lastOp.period)
            last_day  == LastDay(lastOp.period)
        IN /\ ret.ok
           /\ \A i \in Instructors :
                (instr[i].status = "active" /\ TotalHours(i, first_day, last_day) > 0) =>
                    /\ Cardinality(PaymentMatches(ipay, i, first_day)) = 1
                    /\ \A k \in PaymentMatches(ipay, i, first_day) :
                          /\ ipay[k].total_hours = TotalHours(i, first_day, last_day)
                          /\ ipay[k].hourly_rate = instr[i].hourly_rate
                          /\ ipay[k].status = "pending"
                          /\ \E n \in 1..Len(ret.rows) : ret.rows[n] = k

\* C3: once calculate_instructor_payments(M) has completed, no instructor whose
\* total hours in M are 0 has a stored row for M left over from an earlier run.
C3_NoRowForZeroHours ==
    (IsPayCall /\ ret.ok) =>
        LET first_day == FirstDay(lastOp.period)
            last_day  == LastDay(lastOp.period)
        IN \A i \in Instructors :
             TotalHours(i, first_day, last_day) = 0 =>
                 \A k \in PaymentMatches(ipay, i, first_day) : ~computed[k].by_service

\* C4: every row written by calculate_instructor_payments satisfies on its
\* stored two-decimal values gross = hours x rate, tax = gross x tax% / 100
\* and net = gross - tax (each taken to two places), so net + tax = gross.
C4_StoredAmountsAddUp ==
    IsPayCall =>
        \A n \in 1..Len(ret.rows) :
            LET p == ipay[ret.rows[n]]
                t == instr[p.instructor].tax_rate_percentage
            IN /\ p.gross_amount = RoundHalfAway(p.total_hours * p.hourly_rate, 100)
               /\ p.tax_amount = RoundHalfAway(p.gross_amount * t, 10000)
               /\ p.net_amount = p.gross_amount - p.tax_amount

\* C5: once the service has stored a row, a later change of the instructor's
\* hourly_rate does not alter the row under any operation other than a new
\* calculate_instructor_payments run: hourly_rate and gross_amount stay as
\* written, and the admin calculate_amounts action recomputes tax and net from
\* the stored hours and the stored hourly_rate snapshot.
C5_RateSnapshotKept ==
    \A k \in 1..Len(ipay) :
        computed[k].by_service =>
            /\ ipay[k].hourly_rate = computed[k].hourly_rate
            /\ ipay[k].gross_amount = computed[k].gross_amount
            /\ \E t \in TaxValues :
                  /\ ipay[k].tax_amount =
                        RoundMillionth(computed[k].total_hours * computed[k].hourly_rate, t)
                  /\ ipay[k].net_amount =
                        RoundMillionth(computed[k].total_hours * computed[k].hourly_rate, 10000 - t)

\* the admin action has run on a service-written row after the rate changed
C5_Witness ==
    /\ lastOp.op = "admin_calculate_amounts"
    /\ \E k \in 1..Len(ipay) :
          /\ computed[k].by_service
          /\ instr[ipay[k].instructor].hourly_rate # ipay[k].hourly_rate
          /\ ipay[k].gross_amount = 18764

\* C6: the tax percentage of a row is the one the instructor had when the
\* service computed it: after a later change of tax_rate_percentage, the admin
\* calculate_amounts action leaves tax_amount and net_amount as the service wrote them.
C6_TaxSnapshotKept ==
    lastOp.op = "admin_calculate_amounts" =>
        \A k \in 1..Len(ipay) :
            computed[k].by_service =>
                /\ ipay[k].tax_amount = computed[k].tax_amount
                /\ ipay[k].net_amount = computed[k].net_amount

----------------------------------------------------------------------------
(* Claims about the monthly settlement calculator *)

IsProfitCall == lastOp.op = "calculate_monthly_profit"

SameMonth(d1, d2) == d1[1] = d2[1] /\ d1[2] = d2[2]

\* the summary rows of the calendar month of date d
SummariesOfMonth(d) == {k \in 1..Len(mf) : SameMonth(mf[k].period_month, d)}

\* C7: after any sequence of calculate_monthly_profit calls there is at most
\* one MonthlyFinancial row per month, keyed by the first day of the month: a
\* re-run updates the existing row instead of creating a second one.
C7_OneSummaryPerMonth ==
    /\ \A j, k \in 1..Len(mf) : SameMonth(mf[j].period_month, mf[k].period_month) => j = k
    /\ \A k \in 1..Len(mf) : mf[k].period_month[3] = 1

\* two months settled, the last call a re-run for a month that already had its row
C7_Witness ==
    /\ IsProfitCall /\ lastOp.again
    /\ lastOp.period = <<2024, 12, 15>>
    /\ Len(mf) = 2

\* C8: after calculate_monthly_profit(M) the stored total_revenue is the sum of
\* amount_paid over exactly the payments with status 'paid' and a payment_date
\* inside month M; any other status, a null date or a date outside M adds nothing.
C8_RevenueIsPaidInMonth ==
    IsProfitCall =>
        /\ Cardinality(SummariesOfMonth(lastOp.period)) = 1
        /\ \A k \in SummariesOfMonth(lastOp.period) :
              mf[k].total_revenue =
                  SumOver(Payments,
                          [p \in Payments |->
                              IF /\ payments[p].status = "paid"
                                 /\ payments[p].payment_date # NullDate
                                 /\ SameMonth(payments[p].payment_date, lastOp.period)
                              THEN payments[p].amount_paid ELSE 0])

\* December settled with one payment counted and one with money received left out
C8_Witness ==
    /\ IsProfitCall /\ SameMonth(lastOp.period, <<2024, 12, 1>>)
    /\ \A k \in SummariesOfMonth(lastOp.period) : mf[k].total_revenue = 1000000
    /\ \E p \in Payments :
          /\ payments[p].amount_paid > 0
          /\ payments[p].status # "paid"
          /\ payments[p].payment_date = <<2024, 12, 31>>
    /\ \E p \in Payments :
          /\ payments[p].status = "paid"
          /\ payments[p].payment_date = <<2024, 12, 31>>

\* C9: after calculate_monthly_profit(M) the stored instructor_payments is the
\* sum of net_amount over the InstructorPayment rows of M with status approved
\* or paid; pending and cancelled rows are left out.
C9_InstructorPaymentsApprovedOrPaid ==
    IsProfitCall =>
        /\ Cardinality(SummariesOfMonth(lastOp.period)) = 1
        /\ \A k \in SummariesOfMonth(lastOp.period) :
              mf[k].instructor_payments =
                  SumOver(1..Len(ipay),
                          [n \in 1..Len(ipay) |->
                              IF /\ SameMonth(ipay[n].period_month, lastOp.period)
                                 /\ ipay[n].status \in {"approved", "paid"}
                              THEN ipay[n].net_amount ELSE 0])

\* settled with one approved-or-paid row counted and one pending or cancelled row left out
C9_Witness ==
    /\ IsProfitCall
    /\ \A k \in SummariesOfMonth(lastOp.period) : mf[k].instructor_payments = 540000
    /\ \E n \in 1..Len(ipay) : ipay[n].status \in {"pending", "cancelled"}
    /\ \E n \in 1..Len(ipay) : ipay[n].status = "paid"

\* C10: after calculate_monthly_profit(M) the stored operational_expenses is
\* the sum of amount over every paid Expense assigned to month M, whatever day
\* of M its period_month holds.
C10_ExpensesOfMonthAnyDay ==
    IsProfitCall =>
        \A k \in SummariesOfMonth(lastOp.period) :
            mf[k].operational_expenses =
                SumOver(Expenses,
                        [e \in Expenses |->
                            IF /\ expenses[e].status = "paid"
                               /\ SameMonth(expenses[e].period_month, lastOp.period)
                            THEN expenses[e].amount ELSE 0])

----------------------------------------------------------------------------
(* Claims about the settlement arithmetic (SpecSettle) *)

\* C11: after every completed calculate_monthly_profit call the stored summary
\* has total_expenses = instructor_payments + operational_expenses +
\* other_expenses and gross_profit = total_revenue - total_expenses; a loss is
\* stored as a negative gross_profit, not as zero.
C11_TotalsConsistent ==
    (IsProfitCall /\ ret.ok) =>
        \A k \in SummariesOfMonth(lastOp.period) :
            /\ mf[k].total_expenses =
                  mf[k].instructor_payments + mf[k].operational_expenses + mf[k].other_expenses
            /\ mf[k].gross_profit = mf[k].total_revenue - mf[k].total_expenses

\* a completed settlement of a month with paid expenses and no revenue: a loss
C11_Witness ==
    /\ IsProfitCall /\ ret.ok
    /\ \E k \in SummariesOfMonth(lastOp.period) :
          /\ mf[k].total_revenue = 0
          /\ mf[k].total_expenses = 300000
          /\ mf[k].gross_profit = 0 - 300000

\* C12: after a completed calculate_monthly_profit(M, r) the stored summary has
\* retained_earnings = gross_profit x r / 100 (to two places) and
\* distributable_profit = gross_profit - retained_earnings, so the stored
\* retained_earnings and distributable_profit add up to the stored gross_profit.
C12_RetainedAndDistributableAddUp ==
    (IsProfitCall /\ ret.ok) =>
        \A k \in SummariesOfMonth(lastOp.period) :
            /\ mf[k].retained_earnings = RoundHalfAway(mf[k].gross_profit * lastOp.pct, 100)
            /\ mf[k].distributable_profit = mf[k].gross_profit - mf[k].retained_earnings
            /\ mf[k].retained_earnings + mf[k].distributable_profit = mf[k].gross_profit

\* C13: whatever retention percentage the caller passes, a completed
\* calculate_monthly_profit call that computes gross_profit <= 0 stores a
\* distributable_profit <= 0 and creates or modifies no MemberDistribution row.
C13_NoPayoutWithoutProfit ==
    [][(lastOp'.op = "calculate_monthly_profit" /\ ret'.ok) =>
          \A k \in 1..Len(mf') :
              (SameMonth(mf'[k].period_month, lastOp'.period) /\ mf'[k].gross_profit <= 0) =>
                  (mf'[k].distributable_profit <= 0 /\ dist' = dist)]_vars

----------------------------------------------------------------------------
(* Claims about the member allocator (SpecMembers) *)

\* the distributable profit a completed call assigned to summary row, in 1e-4 DH:
\* gross_profit - gross_profit x r / 100
AssignedDistributable(row, pct) == row.gross_profit * (100 - pct)

C15_AmountIsOwnShare ==
    (IsProfitCall /\ ret.ok) =>
        \A k \in SummariesOfMonth(lastOp.period) :
            (/\ AssignedDistributable(mf[k], lastOp.pct) > 0
             /\ \E m \in Members : members[m].status = "active" /\ members[m].share_percentage # 0) =>
                \A n \in 1..Len(dist) :
                    (dist[n].monthly_financial = k /\ members[dist[n].member].status = "active") =>
                        /\ dist[n].share_percentage = members[dist[n].member].share_percentage
                        /\ dist[n].amount =
                              RoundMillionth(AssignedDistributable(mf[k], lastOp.pct),
                                             dist[n].share_percentage)

\* 8000.00 to distribute: the member with share 15 receives 1200.00 next to a
\* member with share 50 who receives 4000.00
C15_Witness ==
    /\ IsProfitCall /\ ret.ok
    /\ \E k \in SummariesOfMonth(lastOp.period) : mf[k].distributable_profit = 800000
    /\ \E n \in 1..Len(dist) : dist[n].share_percentage = 1500 /\ dist[n].amount = 120000
    /\ \E n \in 1..Len(dist) : dist[n].share_percentage = 5000 /\ dist[n].amount = 400000

\* C16: every row the allocator writes for a member whose employment_status
\* is 'public' has status 'cancelled' and is_public_employee = true, whatever
\* the share_percentage, and still carries the computed amount; every row it
\* writes for an active non-public member has status 'pending' and
\* is_public_employee = false.
C16_PublicEmployeesCancelled ==
    (IsProfitCall /\ ret.ok) =>
        \A k \in SummariesOfMonth(lastOp.period) :
            (/\ AssignedDistributable(mf[k], lastOp.pct) > 0
             /\ \E m \in Members : members[m].status = "active" /\ members[m].share_percentage # 0) =>
                \A n \in 1..Len(dist) :
                    (dist[n].monthly_financial = k /\ members[dist[n].member].status = "active") =>
                        IF members[dist[n].member].employment_status = "public"
                        THEN /\ dist[n].status = "cancelled"
                             /\ dist[n].is_public_employee
                             /\ dist[n].amount =
                                   RoundMillionth(AssignedDistributable(mf[k], lastOp.pct),
                                                  members[dist[n].member].share_percentage)
                        ELSE /\ dist[n].status = "pending"
                             /\ ~dist[n].is_public_employee

\* a public member's row cancelled with its 1200.00 stored, next to a pending row
C16_Witness ==
    /\ IsProfitCall /\ ret.ok
    /\ \E n \in 1..Len(dist) :
          /\ members[dist[n].member].employment_status = "public"
          /\ dist[n].status = "cancelled" /\ dist[n].is_public_employee
          /\ dist[n].amount = 120000
    /\ \E n \in 1..Len(dist) : dist[n].status = "pending" /\ ~dist[n].is_public_employee

\* C17: when the share_percentage values of the active members sum to 0 (also
\* when no member is active), a call that has distributable profit > 0
\* completes and creates or modifies no MemberDistribution row.
C17_ZeroSharesNoRows ==
    [][(lastOp'.op = "calculate_monthly_profit" /\ ret'.ok) =>
          \A k \in 1..Len(mf') :
              (/\ SameMonth(mf'[k].period_month, lastOp'.period)
               /\ AssignedDistributable(mf'[k], lastOp'.pct) > 0
               /\ \A m \in Members : members[m].status = "active" => members[m].share_percentage = 0) =>
                  dist' = dist]_vars

\* 8000.00 to distribute, active members all at share 0, the call completed
\* and the rows of an earlier run are as they were
C17_Witness ==
    /\ IsProfitCall /\ ret.ok
    /\ \E k \in SummariesOfMonth(lastOp.period) : mf[k].distributable_profit = 800000
    /\ \E m \in Members : members[m].status = "active"
    /\ \A m \in Members : members[m].share_percentage = 0
    /\ Len(dist) = 2
    /\ \A n \in 1..Len(dist) : dist[n].amount = 120000

\* 8000.00 to distribute and no active member: the call completed without rows
C17_WitnessNoActiveMember ==
    /\ IsProfitCall /\ ret.ok
    /\ \E k \in SummariesOfMonth(lastOp.period) : mf[k].distributable_profit = 800000
    /\ \A m \in Members : members[m].status = "inactive"
    /\ dist = <<>>

----------------------------------------------------------------------------
(* Claims about finalization and re-runs *)

\* the settlement figures of a summary row
Figures(row) ==
    <<row.total_revenue, row.instructor_payments, row.operational_expenses,
      row.other_expenses, row.total_expenses, row.gross_profit,
      row.retained_earnings, row.distributable_profit>>

\* the MemberDistribution rows attached to summary k
RowsOfSummary(table, k) == {n \in 1..Len(table) : table[n].monthly_financial = k}

\* C18: once a MonthlyFinancial row has is_finalized = true, no later
\* calculate_monthly_profit call and no recalculate_totals action changes its
\* revenue, expense, profit, retained or distributable figures, nor the
\* MemberDistribution rows attached to it.
C18_FinalizedIsLocked ==
    [][lastOp'.op \in {"calculate_monthly_profit", "recalculate_totals"} =>
          \A k \in 1..Len(mf) :
              mf[k].is_finalized =>
                  /\ Figures(mf'[k]) = Figures(mf[k])
                  /\ RowsOfSummary(dist', k) = RowsOfSummary(dist, k)
                  /\ \A n \in RowsOfSummary(dist, k) : dist'[n] = dist[n]]_vars

\* C19: whenever a calculate_monthly_profit(M) call has completed, every
\* MemberDistribution row attached to M's summary has amount = the summary's
\* current distributable_profit x the row's share_percentage / 100 (no row
\* keeps the figures of an earlier run), and there is at most one row per
\* (member, summary).
C19_RowsFollowCurrentProfit ==
    (IsProfitCall /\ ret.ok) =>
        \A k \in SummariesOfMonth(lastOp.period) :
            /\ \A n \in RowsOfSummary(dist, k) :
                  dist[n].amount =
                      RoundMillionth(mf[k].distributable_profit * 100, dist[n].share_percentage)
            /\ \A n1, n2 \in RowsOfSummary(dist, k) :
                  dist[n1].member = dist[n2].member => n1 = n2

----------------------------------------------------------------------------
(* Claims about the HTTP layer (SpecRequests) *)

\* the request named a day of the calendar
NamesRealDate(t) ==
    /\ t # NullDate
    /\ t[2] >= 1 /\ t[2] <= 12
    /\ t[3] >= 1
    /\ t[3] <= (IF t[2] = 2 THEN (IF t[1] % 4 = 0 /\ (t[1] % 100 # 0 \/ t[1] % 400 = 0) THEN 29 ELSE 28)
                ELSE IF t[2] \in {4, 6, 9, 11} THEN 30 ELSE 31)

\* C20: a calculation request whose period_month is missing or does not name
\* a valid ISO date is answered with HTTP 400, the service is not entered, and
\* every InstructorPayment, MonthlyFinancial and MemberDistribution row is
\* left unchanged.
C20_BadPeriodRejected ==
    [][(/\ lastOp'.op \in {"post_calculate_instructor_payments", "post_calculate_monthly_profit",
                           "calculate_instructor_payments", "calculate_monthly_profit"}
        /\ ~NamesRealDate(lastOp'.period)) =>
          /\ lastOp'.op \in {"post_calculate_instructor_payments", "post_calculate_monthly_profit"}
          /\ ResponseStatus' = 400
          /\ ipay' = ipay /\ mf' = mf /\ dist' = dist]_vars

\* a settlement request for 29 February 2025 refused with rows of all three
\* tables in place
C20_Witness ==
    /\ lastOp.op = "post_calculate_monthly_profit"
    /\ lastOp.period = <<2025, 2, 29>>
    /\ ResponseStatus = 400
    /\ Len(ipay) > 0 /\ Len(mf) > 0 /\ Len(dist) > 0

----------------------------------------------------------------------------
(* Claims about failures, concurrency and reads *)

\* row k as a complete recomputation by the call would leave it
FullyRecomputed(k, first_day, last_day) ==
    LET i == ipay[k].instructor
    IN CalculateAmounts(
           ApplyPaymentDefaults(ipay[k], TotalHours(i, first_day, last_day), instr[i].hourly_rate),
           instr[i].tax_rate_percentage)

\* C21: when calculate_instructor_payments(M) fails somewhere in its loop,
\* every stored InstructorPayment row is either exactly as before the call or
\* entirely recomputed; no row has the new total_hours, hourly_rate and status
\* next to the old gross_amount, tax_amount and net_amount.
C21_PerRowAtomic ==
    [][(lastOp'.op = "calculate_instructor_payments" /\ ~ret'.ok) =>
          /\ Len(ipay') = Len(ipay)
          /\ \A k \in 1..Len(ipay) :
                \/ ipay'[k] = ipay[k]
                \/ ipay'[k] = FullyRecomputed(k, FirstDay(lastOp'.period), LastDay(lastOp'.period))]_vars

\* C22: under every interleaving of two concurrently running calculations for
\* the same month, the store never holds two MonthlyFinancial rows for that
\* month nor two InstructorPayment rows for the same (instructor, month).
C22_NoDuplicateRows ==
    /\ \A j, k \in 1..Len(mf) : mf[j].period_month = mf[k].period_month => j = k
    /\ \A j, k \in 1..Len(ipay) :
          (ipay[j].instructor = ipay[k].instructor /\ ipay[j].period_month = ipay[k].period_month)
              => j = k

\* both workers found no summary for December; one has inserted it and the
\* other, its create refused, has taken the same row
C22_Witness ==
    /\ Len(mf) = 1
    /\ workers[1].pc = "profit_totals" /\ workers[2].pc = "profit_totals"
    /\ workers[1].k = workers[2].k
    /\ lastOp.op = "profit_insert"
    /\ Len(ipay) = 1

\* C23: get_financial_summary changes no stored row; it returns None when no
\* summary exists for the first day of the period's month, and otherwise the
\* stored total_revenue, total_expenses, gross_profit, retained_earnings,
\* distributable_profit and is_finalized of exactly that row, with
\* profit_margin = gross_profit / total_revenue * 100 when total_revenue > 0
\* and 0 otherwise.
C23_SummaryIsRead ==
    [][lastOp'.op = "get_financial_summary" =>
         LET d     == lastOp'.period
             found == {k \in 1..Len(mf) : mf[k].period_month = <<d[1], d[2], 1>>}
         IN /\ UNCHANGED <<instr, hours, ipay, payments, expenses, members, mf, dist,
                           enrollments>>
            /\ ret'.ok <=> found # {}
            /\ found = {} => ret'.rows = <<>>
            /\ found # {} =>
                 /\ Len(ret'.rows) = 1
                 /\ \E k \in found :
                      LET row == mf[k]
                          v   == ret'.rows[1]
                      IN /\ v.total_revenue = row.total_revenue
                         /\ v.total_expenses = row.total_expenses
                         /\ v.gross_profit = row.gross_profit
                         /\ v.retained_earnings = row.retained_earnings
                         /\ v.distributable_profit = row.distributable_profit
                         /\ v.is_finalized = row.is_finalized
                         /\ v.profit_margin[2] > 0
                         /\ IF row.total_revenue > 0
                            THEN /\ row.total_revenue % v.profit_margin[2] = 0
                                 /\ row.gross_profit * 100 = v.profit_margin[1]
                                      * (row.total_revenue \div v.profit_margin[2])
                            ELSE v.profit_margin[1] = 0]_vars

\* a summary with revenue and a different profit has been read through a
\* date that is not the first of its month
C23_Witness ==
    /\ lastOp.op = "get_financial_summary"
    /\ lastOp.period = <<2024, 12, 15>>
    /\ ret.ok
    /\ ret.rows[1].total_revenue = 1000000
    /\ ret.rows[1].gross_profit = 983125
    /\ ret.rows[1].profit_margin = <<1573, 16>>

\* the calendar month of a date: its first and its last day
MonthStart(d) == <<d[1], d[2], 1>>
MonthEnd(d) == <<d[1], d[2], DaysInMonth(d[1], d[2])>>

\* hours of the courses of instructor i that overlap the calendar month of d
HoursInMonth(i, d) ==
    SumOver({c \in Courses : /\ DateLE(CourseStart(c), MonthEnd(d))
                             /\ DateLE(MonthStart(d), CourseEnd(c))},
            [c \in Courses |-> hours[<<i, c>>]])

\* amounts received with status paid inside the calendar month of d
PaidInMonth(d) ==
    SumOver({p \in Payments : /\ payments[p].status = "paid"
                              /\ payments[p].payment_date # NullDate
                              /\ DateLE(MonthStart(d), payments[p].payment_date)
                              /\ DateLE(payments[p].payment_date, MonthEnd(d))},
            [p \in Payments |-> payments[p].amount_paid])

\* C24: every call is keyed by the first day of the month of the date it is
\* given and uses the window from that day to the last day of that month
\* (31 December of the same year for December), so two dates of one month
\* read and write the same rows: the rows a calculator call processes or
\* changes carry the first day of the month and figures taken over the whole
\* month, and the summary read answers from the row of that first day.
C24_KeyedByMonth ==
    [][lastOp'.op \in {"calculate_instructor_payments", "calculate_monthly_profit",
                       "get_financial_summary"} =>
         LET d == lastOp'.period
         IN /\ \A k \in 1..Len(ipay') :
                 (k > Len(ipay) \/ ipay'[k] # ipay[k]) =>
                     /\ lastOp'.op = "calculate_instructor_payments"
                     /\ ipay'[k].period_month = MonthStart(d)
                     /\ ipay'[k].total_hours = HoursInMonth(ipay'[k].instructor, d)
            /\ \A k \in 1..Len(mf') :
                 (k > Len(mf) \/ mf'[k] # mf[k]) =>
                     /\ lastOp'.op = "calculate_monthly_profit"
                     /\ mf'[k].period_month = MonthStart(d)
            /\ \A n \in 1..Len(dist') :
                 (n > Len(dist) \/ dist'[n] # dist[n]) =>
                     mf'[dist'[n].monthly_financial].period_month = MonthStart(d)
            /\ lastOp'.op = "calculate_instructor_payments" =>
                 \A x \in 1..Len(ret'.rows) :
                     LET k == ret'.rows[x]
                     IN /\ ipay'[k].period_month = MonthStart(d)
                        /\ ipay'[k].total_hours = HoursInMonth(ipay'[k].instructor, d)
            /\ lastOp'.op = "calculate_monthly_profit" =>
                 LET k == ret'.rows[1]
                 IN /\ mf'[k].period_month = MonthStart(d)
                    /\ mf'[k].total_revenue = PaidInMonth(d)
                    /\ \A j \in 1..Len(mf') : mf'[j].period_month = MonthStart(d) => j = k
            /\ lastOp'.op = "get_financial_summary" =>
                 /\ ret'.ok <=> \E k \in 1..Len(mf) : mf[k].period_month = MonthStart(d)
                 /\ ret'.ok => ret'.rows[1].period = <<d[2], d[1]>>]_vars

\* the December summary was written through 15 December and counts a payment
\* received on 31 December
C24_Witness ==
    /\ lastOp.op = "calculate_monthly_profit"
    /\ lastOp.period = <<2024, 12, 15>>
    /\ \E p \in Payments : payments[p].status = "paid" /\ payments[p].payment_date = <<2024, 12, 31>>
    /\ Len(mf) = 1
    /\ mf[1].period_month = <<2024, 12, 1>>
    /\ mf[1].total_revenue >= 1000000
    /\ Len(ipay) = 1
    /\ ipay[1].total_hours = 125

\* C25: an InstructorPayment that has reached 'approved' or 'paid' is never
\* moved back to 'pending' by a later operation; a later
\* calculate_instructor_payments run for the same month changes neither its
\* status nor its payment_date.
C25_ApprovedStaysApproved ==
    [][\A k \in 1..Len(ipay) :
         ipay[k].status \in {"approved", "paid"} =>
             /\ ipay'[k].status # "pending"
             /\ lastOp'.op = "calculate_instructor_payments" =>
                   /\ ipay'[k].status = ipay[k].status
                   /\ ipay'[k].payment_date = ipay[k].payment_date]_vars

\* C28: hours are paid at most once: when every InstructorPayment row of an
\* instructor is as calculate_instructor_payments writes it for its month
\* from the current hours, the total_hours of those rows together do not
\* exceed the hours_taught of the instructor's course assignments together.
C28_HoursPaidOnce ==
    \A i \in Instructors :
        LET mine == {k \in 1..Len(ipay) : ipay[k].instructor = i}
        IN (\A k \in mine :
                /\ computed[k].by_service
                /\ ipay[k].total_hours = HoursInMonth(i, ipay[k].period_month))
           => SumOver(mine, [k \in 1..Len(ipay) |-> ipay[k].total_hours])
                <= SumOver(Courses, [c \in Courses |-> hours[<<i, c>>]])

\* C26: a MemberDistribution that has reached 'approved' or 'paid' is never
\* returned to 'pending' or 'cancelled', and its amount is never changed, by
\* a later calculate_monthly_profit run for the same month.
C26_ApprovedDistributionKept ==
    [][lastOp'.op = "calculate_monthly_profit" =>
         \A n \in 1..Len(dist) :
             dist[n].status \in {"approved", "paid"} =>
                 /\ dist'[n].status \notin {"pending", "cancelled"}
                 /\ dist'[n].amount = dist[n].amount]_vars

\* C27: no step brings a MemberDistribution to 'approved' or 'paid' while its
\* member's employment_status is 'public'.
C27_NoPayoutToPublicEmployee ==
    [][\A n \in 1..Len(dist') :
         (/\ dist'[n].status \in {"approved", "paid"}
          /\ (n > Len(dist) \/ dist[n].status # dist'[n].status))
         => members'[dist'[n].member].employment_status # "public"]_vars

\* C29: under every interleaving of enroll_student requests for one course,
\* the number of active enrollments never exceeds max_students, and a student
\* never has two active enrollments in the course.
C29_CapacityRespected ==
    /\ EnrolledCount <= MaxStudents
    /\ \A j, k \in 1..Len(enrollments) :
         (/\ enrollments[j].student = enrollments[k].student
          /\ enrollments[j].status = "active"
          /\ enrollments[k].status = "active") => j = k

\* C30: calculate_monthly_profit overwrites the summary's other_expenses with
\* 0 whatever was stored before, so after every run total_expenses =
\* instructor_payments + operational_expenses; it leaves is_finalized,
\* finalized_date and notes of the row, and all InstructorPayment, Payment,
\* Expense and Member rows, unchanged.
C30_OtherExpensesZeroed ==
    [][lastOp'.op = "calculate_monthly_profit" =>
         LET k == ret'.rows[1]
         IN /\ mf'[k].other_expenses = 0
            /\ mf'[k].total_expenses
                 = mf'[k].instructor_payments + mf'[k].operational_expenses
            /\ k <= Len(mf) =>
                 /\ mf'[k].is_finalized = mf[k].is_finalized
                 /\ mf'[k].finalized_date = mf[k].finalized_date
                 /\ mf'[k].notes = mf[k].notes
            /\ UNCHANGED <<ipay, payments, expenses, members>>]_vars

\* a finalized, annotated summary has been settled again after its
\* other_expenses were entered in the admin: the three edits spent are the
\* note, the payment and the other_expenses entry, which needs the row of a
\* first run
C30_Witness ==
    /\ lastOp.op = "calculate_monthly_profit"
    /\ Len(mf) = 1
    /\ mf[1].other_expenses = 0
    /\ mf[1].is_finalized
    /\ mf[1].notes = "audited"
    /\ mf[1].total_revenue = 1000000
    /\ mf[1].total_expenses = 540000
    /\ edits = 3
    /\ \E p \in Payments : payments[p].status # "paid"

====
